---- MODULE Spec2Model ----
(***************************************************************************)
(* A model of pyrcmemcached.py: a key-value client that tunnels get / set  *)
(* / delete over IRC channel metadata.                                     *)
(*                                                                         *)
(* Text is modelled as a sequence of atoms.  An atom is either one of the  *)
(* separator characters the program splits on (" ", ":", "=", "@", CR, LF) *)
(* or a word that contains none of them, so every split, startswith and    *)
(* endswith of the source is computed on the atoms exactly as the source   *)
(* computes it on characters.                                              *)
(***************************************************************************)
EXTENDS Integers, Sequences, FiniteSets

\* ------------------------------------------------------------------ text

CR == "CR"
LF == "LF"
SP == " "
CRLF == <<CR, LF>>

\* s[i..j] as a sequence (empty when j < i).
Slice(s, i, j) == IF j < i THEN <<>> ELSE SubSeq(s, i, j)

\* s.startswith(p) / s.endswith(p) for sequences of atoms.
StartsWith(s, p) == Len(s) >= Len(p) /\ Slice(s, 1, Len(p)) = p
EndsWith(s, p) == Len(s) >= Len(p) /\ Slice(s, Len(s) - Len(p) + 1, Len(s)) = p

\* The first index from i on at which sep occurs in s, 0 when there is none.
RECURSIVE FindFrom(_, _, _)
FindFrom(s, sep, i) ==
    IF i + Len(sep) - 1 > Len(s) THEN 0
    ELSE IF s[i] = sep[1] /\ Slice(s, i, i + Len(sep) - 1) = sep THEN i
    ELSE FindFrom(s, sep, i + 1)

\* The first index at which sep occurs in s, 0 when it does not occur.
Find(s, sep) == FindFrom(s, sep, 1)

\* Python's s.split(sep): every non-overlapping occurrence, left to right,
\* cuts; empty pieces are kept.
RECURSIVE Split(_, _)
Split(s, sep) ==
    LET i == Find(s, sep)
    IN  IF i = 0 THEN <<s>>
        ELSE <<Slice(s, 1, i - 1)>> \o Split(Slice(s, i + Len(sep), Len(s)), sep)

\* Python's s.split(sep, 1): at most one cut.
Split1(s, sep) ==
    LET i == Find(s, sep)
    IN  IF i = 0 THEN <<s>>
        ELSE <<Slice(s, 1, i - 1), Slice(s, i + Len(sep), Len(s))>>

\* list(filter(bool, tokens)): the empty strings are dropped.
RECURSIVE FilterNonEmpty(_)
FilterNonEmpty(toks) ==
    IF toks = <<>> THEN <<>>
    ELSE (IF Head(toks) = <<>> THEN <<>> ELSE <<Head(toks)>>)
         \o FilterNonEmpty(Tail(toks))

\* --------------------------------------------------------------- Message

\* Message = namedtuple('Message', 'tags prefix command params').  prefix is
\* <<>> for None and <<p>> for the string p.
Message(prefix, command, params) ==
    [tags |-> <<>>, prefix |-> prefix, command |-> command, params |-> params]

NoMessage == Message(<<>>, <<>>, <<>>)

\* The outcome of a call: err is "" when it returned, otherwise the name of
\* the exception it raised.
Parsed(err, msg) == [err |-> err, msg |-> msg]

\* parse_message, lines 40-51: prefix, command and params from the tokens.
FromTokens(tokens) ==
    IF tokens = <<>> THEN Parsed("IndexError", NoMessage)        \* tokens[0]
    ELSE IF StartsWith(tokens[1], <<":">>)
    THEN (IF Tail(tokens) = <<>>
          THEN Parsed("IndexError", NoMessage)                   \* tokens.pop(0)
          ELSE Parsed("", Message(<<Tail(tokens[1])>>, tokens[2], Tail(Tail(tokens)))))
    ELSE Parsed("", Message(<<>>, tokens[1], Tail(tokens)))

\* parse_message, lines 35-39, from parts = s.split(' :'): ' :' is in s
\* exactly when the split has more than one part, and unpacking it into two
\* names raises ValueError when it has more than two.
FromParts(parts) ==
    IF Len(parts) = 1 THEN FromTokens(FilterNonEmpty(Split(parts[1], <<SP>>)))
    ELSE IF Len(parts) /= 2 THEN Parsed("ValueError", NoMessage)
    ELSE FromTokens(FilterNonEmpty(Split(parts[1], <<SP>>)) \o <<parts[2]>>)

\* parse_message, after the tag segment is removed: lines 35-51.
ParseBody(s) == FromParts(Split(s, <<SP, ":">>))

\* parse_message, lines 33-34: the tag segment is split off and dropped.
ParseTagged(body) ==
    IF ~StartsWith(body, <<"@">>) THEN ParseBody(body)
    ELSE IF Len(Split1(body, <<SP>>)) /= 2
    THEN Parsed("ValueError", NoMessage)          \* unpacking split(' ', 1)
    ELSE ParseBody(Split1(body, <<SP>>)[2])

\* parse_message(s): lines 26-51.
parse_message(s) ==
    IF ~EndsWith(s, CRLF) THEN Parsed("AssertionError", NoMessage)
    ELSE ParseTagged(Slice(s, 1, Len(s) - 2))

\* ---------------------------------------------------------- Python values

\* The values a caller hands to set() and get() hands back: a bool, an int,
\* a str or None.
PyBool(b) == [t |-> "bool", n |-> IF b THEN 1 ELSE 0, s |-> <<>>]
PyInt(n) == [t |-> "int", n |-> n, s |-> <<>>]
PyStr(s) == [t |-> "str", n |-> 0, s |-> s]
PyNone == [t |-> "None", n |-> 0, s |-> <<>>]

Digits == <<"0", "1", "2", "3", "4", "5", "6", "7", "8", "9">>

\* str(n) for a natural number: its decimal digits.
RECURSIVE IntToStr(_)
IntToStr(n) ==
    IF n < 10 THEN <<Digits[n + 1]>>
    ELSE IntToStr(n \div 10) \o <<Digits[(n % 10) + 1]>>

IsDigit(a) == \E d \in 1..10 : Digits[d] = a
DigitValue(a) == (CHOOSE d \in 1..10 : Digits[d] = a) - 1

\* int(s) for a string of decimal digits; anything else raises ValueError.
RECURSIVE DigitsToInt(_)
DigitsToInt(s) ==
    IF s = <<>> THEN 0
    ELSE DigitsToInt(Slice(s, 1, Len(s) - 1)) * 10 + DigitValue(s[Len(s)])

IntOfStrOk(s) == s /= <<>> /\ \A i \in 1..Len(s) : IsDigit(s[i])

\* '{value}'.format(value=v): str(True) is 'True', str(42) is '42'.
FormatValue(v) ==
    CASE v.t = "bool" -> (IF v.n = 1 THEN <<"True">> ELSE <<"False">>)
      [] v.t = "int" -> IntToStr(v.n)
      [] v.t = "str" -> v.s
      [] OTHER -> <<"None">>

\* Client.set, lines 184-189: the type tag, bool tested before int
\* (isinstance(value, int) is true of a bool as well).
TypeTag(v) ==
    IF v.t = "bool" THEN "bool"
    ELSE IF v.t \in {"bool", "int"} THEN "int"
    ELSE "str"

\* Client.get, lines 213-218: decoding m.params[3].
\* bool(value) is true of every non-empty string.
DecodePayload(payload) ==
    LET parts == Split1(payload, <<":">>)
    IN  IF Len(parts) /= 2 THEN [err |-> "ValueError", val |-> PyNone]
        ELSE IF parts[1] = <<"bool">>
        THEN [err |-> "", val |-> PyBool(parts[2] /= <<>>)]
        ELSE IF parts[1] = <<"int">>
        THEN (IF IntOfStrOk(parts[2])
              THEN [err |-> "", val |-> PyInt(DigitsToInt(parts[2]))]
              ELSE [err |-> "ValueError", val |-> PyNone])
        ELSE [err |-> "", val |-> PyStr(parts[2])]

\* ------------------------------------------------------------------- keys

\* The words of the model that consist of letters and digits only.
AlnumWords == {"foo", "a", "b", "bar", "k"}

\* isvalidkey, lines 15-17: every character is a letter, a digit or _ . :
isvalidkey(key) ==
    \A i \in 1..Len(key) : key[i] \in AlnumWords \cup {"_", ".", ":"} \/ IsDigit(key[i])

\* Client.channel, line 158.
channel == <<"#foo">>

\* The request lines of Client.set, Client.get and Client.delete_multi.
SetLine(key, v) ==
    <<"METADATA", SP>> \o channel \o <<SP, "SET", SP>> \o key
        \o <<SP, ":", TypeTag(v), ":">> \o FormatValue(v)
GetLine(key) == <<"METADATA", SP>> \o channel \o <<SP, "GET", SP>> \o key
DeleteLine(key) == <<"METADATA", SP>> \o channel \o <<SP, "SET", SP>> \o key

\* The lines of IrcClient.authenticate and IrcClient.join.
CapLsLine == <<"CAP", SP, "LS", SP, "302">>
UserLine == <<"USER", SP, "pyrcmemcached", SP, "*", SP, "*", SP, ":", "pyrcmemcached">>
NickLine == <<"NICK", SP, "nick">>
CapEndLine == <<"CAP", SP, "END">>
PingLine == <<"PING">>
JoinLine == <<"JOIN", SP>> \o channel

\* sendLine, lines 115-119: the bytes put on the wire for a line.
WireBytes(line) == IF EndsWith(line, CRLF) THEN line ELSE line \o CRLF

\* ----------------------------------------------------------------- server

\* The peer: an IRC server with channel metadata.  Its replies are what the
\* client's code reads for (the numerics of lines 131-153 and 196-232) and
\* what the self-test of lines 234-240 needs to pass: SET answers 761 then
\* 762, GET answers one 761 or one 766, SET without a value deletes the key.
SrvPrefix == <<":", "srv", SP>>

Rpl761(target, key, value) ==
    SrvPrefix \o <<"761", SP>> \o target \o <<SP>> \o key \o <<SP, "*", SP, ":">>
        \o value \o CRLF
Rpl761NoValue(target, key) ==
    SrvPrefix \o <<"761", SP>> \o target \o <<SP>> \o key \o <<SP, "*">> \o CRLF
Rpl762(target) ==
    SrvPrefix \o <<"762", SP>> \o target \o <<SP, ":", "end">> \o CRLF
Rpl766(target, key) ==
    SrvPrefix \o <<"766", SP>> \o target \o <<SP>> \o key \o <<SP, ":", "no", SP, "key">>
        \o CRLF

\* The store of the channel: a function from the keys that are set to their
\* values.
StorePut(store, key, value) ==
    [k \in DOMAIN store \cup {key} |-> IF k = key THEN value ELSE store[k]]
StoreDel(store, key) == [k \in DOMAIN store \ {key} |-> store[k]]

\* What the server does with one METADATA request: the bytes it answers, its
\* new store and the number of reply lines.
SrvOut(out, store, replies) == [out |-> out, store |-> store, replies |-> replies]

MetadataReact(m, store) ==
    LET p == m.params
    IN  IF Len(p) >= 4 /\ p[2] = <<"SET">>
        THEN SrvOut(Rpl761(p[1], p[3], p[4]) \o Rpl762(p[1]),
                    StorePut(store, p[3], p[4]), 2)
        ELSE IF Len(p) = 3 /\ p[2] = <<"SET">>
        THEN SrvOut(Rpl761NoValue(p[1], p[3]) \o Rpl762(p[1]),
                    StoreDel(store, p[3]), 2)
        ELSE IF Len(p) >= 3 /\ p[2] = <<"GET">>
        THEN (IF p[3] \in DOMAIN store
              THEN SrvOut(Rpl761(p[1], p[3], store[p[3]]), store, 1)
              ELSE SrvOut(Rpl766(p[1], p[3]), store, 1))
        ELSE SrvOut(<<>>, store, 0)

\* The registration burst, by the choices a server has.
CapReplies ==
    [single |-> SrvPrefix \o <<"CAP", SP, "*", SP, "LS", SP, ":", "metadata-2">> \o CRLF,
     multi |-> SrvPrefix \o <<"CAP", SP, "*", SP, "LS", SP, "*", SP, ":", "cap-notify">>
                   \o CRLF
               \o SrvPrefix \o <<"CAP", SP, "*", SP, "LS", SP, ":", "metadata-2">> \o CRLF]

Rpl001 == SrvPrefix \o <<"001", SP, "nick", SP, ":", "Welcome">> \o CRLF
Rpl005Meta ==
    SrvPrefix \o <<"005", SP, "nick", SP, "METADATA", "=", "1", SP, ":", "are", SP,
                   "supported">> \o CRLF
Rpl005NoMeta ==
    SrvPrefix \o <<"005", SP, "nick", SP, "CHANTYPES", "=", "#", SP, ":", "are", SP,
                   "supported">> \o CRLF
Rpl005MetaLast ==
    SrvPrefix \o <<"005", SP, "nick", SP, "CHANTYPES", "=", "#", SP, "METADATA">> \o CRLF

WelcomeReplies ==
    [meta |-> Rpl001 \o Rpl005Meta,
     nometa |-> Rpl001 \o Rpl005NoMeta,
     last |-> Rpl001 \o Rpl005MetaLast,
     second |-> Rpl001 \o Rpl005NoMeta \o Rpl005Meta]

RplPong == SrvPrefix \o <<"PONG", SP, "srv">> \o CRLF
RplNotice == SrvPrefix \o <<"NOTICE", SP, "nick", SP, ":", "hi">> \o CRLF
RplJoinEcho == <<":", "nick", SP, "JOIN", SP>> \o channel \o CRLF
Rpl353 == SrvPrefix \o <<"353", SP, "nick", SP, "=", SP>> \o channel
              \o <<SP, ":", "nick">> \o CRLF
Rpl366 == SrvPrefix \o <<"366", SP, "nick", SP>> \o channel \o <<SP, ":", "End">> \o CRLF

JoinReplies ==
    [echo |-> RplJoinEcho \o Rpl353 \o Rpl366,
     only366 |-> Rpl366,
     notice |-> RplNotice \o RplJoinEcho \o Rpl366]

\* ------------------------------------------------------------------ state

VARIABLES
    conn,          \* IrcClient.conn: "unset" (the attribute was never assigned),
                   \* "unconnected" (a socket whose connect failed), "connected",
                   \* "None" (after disconnect)
    inbuffer,      \* IrcClient.inbuffer: the parsed messages not yet handed out
    capabilities,  \* authenticate's local list of capability names
    pc,            \* where the running call stands; "idle" between calls
    session,       \* the handshake's progress (SessionState)
    cur,           \* the running store operation and its arguments
    rdMode,        \* "none", or the getMessages call in progress: "one"
                   \* (assert_get_one=True, from getMessage) or "avail"
    data,          \* getMessages' local buffer of received bytes
    stream,        \* bytes the peer wrote that the client has not received yet
    peerClosed,    \* the peer closed its end of the stream
    store,         \* the server's metadata of the channel
    obs            \* what an observer of the calls records (history only)

vars == <<conn, inbuffer, capabilities, pc, session, cur, rdMode, data, stream,
          peerClosed, store, obs>>

\* Bounds of the model.
MaxConnects == 2
MaxOps == 3
MaxRawSends == 1
MaxKeys == 2
MaxPeerLines == 3
MaxReads == 3
MaxLineLen == 5

SessionStates ==
    {"Init", "AwaitingCapabilities", "AwaitingISupport", "AwaitingPong",
     "JoiningChannel", "Ready", "Failed"}

\* Positions inside Client._connect (authenticate, then join).
HandshakePcs == {"authenticate", "cap", "isupport", "pong", "join", "drain"}
\* Positions inside the store operations.
StorePcs == {"set761", "set762", "get", "del761", "del762"}
\* Positions that stand at a call of getMessage().
WaitingPcs == {"cap", "isupport", "pong", "join", "getMessage"} \cup StorePcs

NoCur == [op |-> "", key |-> <<>>, keys |-> <<>>, i |-> 0, val |-> PyNone]
NoScript == [cap |-> "", welcome |-> "", join |-> ""]
NoLast ==
    [call |-> "", before |-> "", after |-> "", err |-> "", sent |-> 0, closed |-> FALSE]
NoRead == [zero |-> FALSE, buffered |-> FALSE, err |-> "", returned |-> 0]

\* The whole state as one record, so that a handler is a function from the
\* state before it to the state after it.
State ==
    [conn |-> conn, inbuffer |-> inbuffer, capabilities |-> capabilities, pc |-> pc,
     session |-> session, cur |-> cur, rdMode |-> rdMode, data |-> data,
     stream |-> stream, peerClosed |-> peerClosed, store |-> store, obs |-> obs]

Become(s) ==
    /\ conn' = s.conn
    /\ inbuffer' = s.inbuffer
    /\ capabilities' = s.capabilities
    /\ pc' = s.pc
    /\ session' = s.session
    /\ cur' = s.cur
    /\ rdMode' = s.rdMode
    /\ data' = s.data
    /\ stream' = s.stream
    /\ peerClosed' = s.peerClosed
    /\ store' = s.store
    /\ obs' = s.obs

\* The observer's record when nothing has happened yet.
Obs0(connects, ops) ==
    [err |-> "",              \* the exception the last finished call raised
     result |-> PyNone,       \* the value the last finished call returned
     reason |-> "",           \* why the handshake failed
     hsSent |-> <<>>,         \* lines the handshake sent on this connection
     hsRead |-> <<>>,         \* messages the handshake took on this connection
     old |-> [left |-> 0,     \* messages at the head of the inbox that were
              taken |-> 0],   \* received before disconnect() and connect(),
                              \* and how many of them were taken since
     callSent |-> <<>>,       \* lines the running call sent
     callRead |-> FALSE,      \* the running call has received or taken a message
     callFirst |-> NoMessage, \* the first message the running call took
     hist |-> <<>>,           \* the last three finished store operations
     allOk |-> TRUE,          \* no store operation has raised so far
     owed |-> <<>>,           \* per unanswered request, its reply lines not
                              \* yet taken from the inbox
     entered |-> [x \in SessionStates |-> 0],
     joinFirst |-> <<>>,      \* command of the first non-NOTICE message after JOIN
     seen005 |-> NoMessage,   \* the 005 message authenticate examined
     script |-> NoScript,     \* what the server chose to answer
     last |-> NoLast,         \* the last sendLine / disconnect call
     read |-> NoRead,         \* the last finished getMessages
     written |-> <<>>,        \* the lines the peer wrote, in order
     delivered |-> <<>>,      \* the messages the read calls returned, in order
     midTimeout |-> FALSE,    \* a receive timed out inside a line
     built |-> FALSE,         \* Client.__init__ has completed
     connectsLeft |-> connects,
     opsLeft |-> ops,
     rawLeft |-> MaxRawSends,
     readsLeft |-> MaxReads]

\* Entering a handshake state.
Enter(s, st) ==
    [s EXCEPT !.session = st, !.obs.entered[st] = @ + 1]

\* What the observer keeps of a finished store operation.
HistEntry(s, e, r) ==
    [op |-> s.cur.op, key |-> s.cur.key, keys |-> s.cur.keys, val |-> s.cur.val,
     err |-> e, res |-> r, lines |-> s.obs.callSent, read |-> s.obs.callRead,
     first |-> s.obs.callFirst, okBefore |-> s.obs.allOk]

\* The observer keeps the last three finished store operations.
Window(h) == IF Len(h) > 3 THEN Tail(h) ELSE h

\* The running call ends: it raises e (e /= "") or returns r (e = "").
Finish(s, e, r) ==
    LET s1 == IF s.pc \in HandshakePcs
              THEN (IF e = "" THEN [Enter(s, "Ready") EXCEPT !.obs.built = TRUE]
                    ELSE [Enter(s, "Failed") EXCEPT !.obs.reason = e])
              ELSE s
        s2 == IF s.cur.op /= ""
              THEN [s1 EXCEPT !.obs.hist = Window(Append(@, HistEntry(s, e, r))),
                              !.obs.allOk = @ /\ e = ""]
              ELSE s1
    IN  [s2 EXCEPT !.pc = "idle", !.rdMode = "none", !.data = <<>>, !.cur = NoCur,
                   !.obs.err = e, !.obs.result = r]

Raise(s, e) == Finish(s, e, PyNone)
Return(s, r) == Finish(s, "", r)

\* A call begins: the per-call part of the observer's record is reset.
Begin(s) ==
    [s EXCEPT !.obs.callSent = <<>>, !.obs.callRead = FALSE,
              !.obs.callFirst = NoMessage]

\* --------------------------------------------------------------- sendLine

\* The server answers a METADATA request: its bytes are in flight, its store
\* is changed, and a request with replies is one more the client is owed.
Answer(s, o) ==
    [s EXCEPT !.stream = @ \o o.out, !.store = o.store,
              !.obs.owed = IF o.replies > 0 THEN Append(@, o.replies) ELSE @]

\* What the server does with the message m of one line it receives.  ch is the
\* choice it makes where it has one (the form of its CAP LS, 005 and JOIN
\* answers).
ServerReactTo(s, m, ch) ==
    IF m.command = <<"CAP">> /\ Len(m.params) >= 1 /\ m.params[1] = <<"LS">>
    THEN [s EXCEPT !.stream = @ \o CapReplies[ch], !.obs.script.cap = ch]
    ELSE IF m.command = <<"CAP">> /\ Len(m.params) >= 1 /\ m.params[1] = <<"END">>
    THEN [s EXCEPT !.stream = @ \o WelcomeReplies[ch], !.obs.script.welcome = ch]
    ELSE IF m.command = <<"PING">>
    THEN [s EXCEPT !.stream = @ \o RplPong]
    ELSE IF m.command = <<"JOIN">>
    THEN [s EXCEPT !.stream = @ \o JoinReplies[ch], !.obs.script.join = ch]
    ELSE IF m.command = <<"METADATA">>
    THEN Answer(s, MetadataReact(m, s.store))
    ELSE s

\* A line the server cannot read, or one written after it closed, gets no
\* answer.
ServerReact(s, r, ch) ==
    IF r.err /= "" \/ s.peerClosed THEN s ELSE ServerReactTo(s, r.msg, ch)

\* sendLine, lines 113-114: `if not self.conn: raise Disconnected()`.  With
\* the attribute never assigned the test itself raises AttributeError; a
\* socket whose connect failed is a true value, and sendall on it raises
\* OSError.
CanSend(s) == s.conn = "connected"
SendError(s) ==
    CASE s.conn = "unset" -> "AttributeError"
      [] s.conn = "None" -> "Disconnected"
      [] OTHER -> "OSError"

\* sendLine, lines 115-119, on a live socket: the bytes go out, the server
\* answers.
Transmit(s, line, ch) ==
    LET s1 == [s EXCEPT !.obs.callSent = Append(@, WireBytes(line)),
                        !.obs.hsSent = IF s.pc \in HandshakePcs
                                       THEN Append(@, WireBytes(line)) ELSE @]
    IN  ServerReact(s1, parse_message(WireBytes(line)), ch)

\* ------------------------------------------------------------- handshake

\* IrcClient.connect, lines 58-61, as Client._connect calls it (line 171).  A
\* new socket starts with nothing in flight; inbuffer is not touched.
Connect(s, ok) ==
    LET s0 == [Begin(s) EXCEPT
                 !.conn = IF ok THEN "connected" ELSE "unconnected",
                 !.stream = <<>>, !.peerClosed = FALSE, !.pc = "authenticate",
                 !.obs.entered = [x \in SessionStates |-> 0],
                 !.obs.hsSent = <<>>, !.obs.hsRead = <<>>,
                 !.obs.old = [left |-> IF s.conn = "None" THEN Len(s.inbuffer) ELSE 0,
                              taken |-> 0],
                 !.obs.owed = <<>>, !.obs.joinFirst = <<>>,
                 !.obs.seen005 = NoMessage, !.obs.script = NoScript,
                 !.obs.reason = "", !.obs.connectsLeft = @ - 1]
    IN  IF ok THEN Enter(s0, "Init") ELSE Raise(s0, "ConnectFailed")

\* authenticate, lines 124-128: three lines, then the capability loop.
AuthenticateStart(s, ch) ==
    LET s1 == Transmit(s, CapLsLine, ch)
        s2 == Transmit(s1, UserLine, ch)
        s3 == Transmit(s2, NickLine, ch)
    IN  [Enter(s3, "AwaitingCapabilities") EXCEPT !.pc = "cap", !.capabilities = <<>>]

\* A variant of lines 130-138 that ends the loop at the first CAP LS reply,
\* with or without the continuation marker.
CapStep_FirstLine(s, m, ch) ==
    IF m.command /= <<"CAP">> THEN s
    ELSE IF Len(m.params) < 3 THEN Raise(s, "IndexError")
    ELSE IF m.params[2] /= <<"LS">> THEN s
    ELSE [Enter(Transmit(s, CapEndLine, ch), "AwaitingISupport")
            EXCEPT !.pc = "isupport"]

\* authenticate, lines 130-138: one message in the capability loop.
CapStep(s, m, ch) ==
    IF m.command /= <<"CAP">> THEN s
    ELSE IF Len(m.params) < 2 THEN Raise(s, "IndexError")
    ELSE IF m.params[2] /= <<"LS">> THEN s
    ELSE IF Len(m.params) < 3 THEN Raise(s, "IndexError")
    ELSE IF m.params[3] = <<"*">>
    THEN (IF Len(m.params) < 4 THEN Raise(s, "IndexError")
          ELSE [s EXCEPT !.capabilities = @ \o Split(m.params[4], <<SP>>)])
    ELSE LET s1 == [s EXCEPT !.capabilities = @ \o Split(m.params[3], <<SP>>)]
         IN  [Enter(Transmit(s1, CapEndLine, ch), "AwaitingISupport")
                 EXCEPT !.pc = "isupport"]

\* A variant of line 141 that takes any 005 message as naming METADATA.
HasMetadata_Unchecked(m) == TRUE

\* authenticate, line 141: the names of m.params[1:-1] hold METADATA.
HasMetadata(m) ==
    \E i \in 2..(Len(m.params) - 1) : Split(m.params[i], <<"=">>)[1] = <<"METADATA">>

\* authenticate, lines 139-144: one message while waiting for 005.
ISupportStep(s, m, ch) ==
    IF m.command /= <<"005">> THEN s
    ELSE LET s1 == [s EXCEPT !.obs.seen005 = m]
         IN  IF ~HasMetadata(m) THEN Raise(s1, "UnsupportedServer")
             ELSE [Enter(Transmit(s1, PingLine, ch), "AwaitingPong")
                     EXCEPT !.pc = "pong"]

\* authenticate, lines 145-146, and join's line 149: one message while
\* waiting for PONG; with it authenticate returns and _connect calls join.
PongStep(s, m, ch) ==
    IF m.command /= <<"PONG">> THEN s
    ELSE [Enter(Transmit(s, JoinLine, ch), "JoiningChannel") EXCEPT !.pc = "join"]

\* A variant of line 153 without the assertion.
JoinAccepts_Any(m) == TRUE

\* join, line 153: `assert m.command != '366'`.
JoinAccepts(m) == m.command /= <<"366">>

\* join, lines 150-154: one message after JOIN; NOTICEs are skipped, then the
\* assertion, then getMessages() is called for what else has arrived.
JoinStep(s, m, ch) ==
    IF m.command = <<"NOTICE">> THEN s
    ELSE LET s1 == [s EXCEPT !.obs.joinFirst = m.command]
         IN  IF ~JoinAccepts(m) THEN Raise(s1, "AssertionError")
             ELSE [s1 EXCEPT !.pc = "drain", !.rdMode = "avail", !.data = <<>>]

\* ------------------------------------------------------------ getMessages

\* getMessages, lines 96-102: the buffered text is split on CRLF and every
\* non-empty piece is parsed; the first parse that raises ends the call.
Prepend(r, rest) ==
    IF r.err /= "" THEN [err |-> r.err, msgs |-> <<>>]
    ELSE IF rest.err /= "" THEN rest
    ELSE [err |-> "", msgs |-> <<r.msg>> \o rest.msgs]

RECURSIVE ParseLines(_)
ParseLines(lines) ==
    IF lines = <<>> THEN [err |-> "", msgs |-> <<>>]
    ELSE IF Head(lines) = <<>> THEN ParseLines(Tail(lines))
    ELSE Prepend(parse_message(Head(lines) \o CRLF), ParseLines(Tail(lines)))

ParseData(d) == ParseLines(Split(d, CRLF))

\* The observer notes how a getMessages of the reading calls ended.
Observe(s, r) ==
    IF s.pc \in {"getMessage", "getMessages"} THEN [s EXCEPT !.obs.read = r] ELSE s

\* getMessages returns msgs to its caller: getMessage stores them in
\* inbuffer (line 106) and raises NoMessageException when there are none
\* (line 108; the name is defined nowhere, so the raise is a NameError);
\* join drops them (line 154) and the handshake is complete; a direct caller
\* gets them.
Deliver(s, msgs) ==
    LET s1 == Observe([s EXCEPT !.rdMode = "none", !.data = <<>>],
                      [zero |-> FALSE, buffered |-> s.data /= <<>>,
                       err |-> "", returned |-> Len(msgs)])
    IN  IF s.rdMode = "one"
        THEN (IF msgs = <<>> THEN Raise(s1, "NameError:NoMessageException")
              ELSE [s1 EXCEPT !.inbuffer = msgs])
        ELSE IF s.pc = "drain" THEN Return(s1, PyNone)
        ELSE [Return(s1, PyNone) EXCEPT !.obs.delivered = @ \o msgs]

\* getMessages, lines 96-102, once the receive loop has ended with buffer d,
\* which parses to r.
LoopParsed(s, d, r) ==
    IF r.err /= ""
    THEN Raise(Observe(s, [zero |-> FALSE, buffered |-> d /= <<>>,
                           err |-> r.err, returned |-> 0]), r.err)
    ELSE Deliver([s EXCEPT !.data = d], r.msgs)

LoopExit(s, d) == LoopParsed(s, d, ParseData(d))

\* getMessages, lines 77 and 90-95: recv returned the first n bytes in flight.
RecvData(s, n) ==
    LET new_data == Slice(s.stream, 1, n)
        s1 == [s EXCEPT !.stream = Slice(@, n + 1, Len(@)),
                        !.data = @ \o new_data,
                        !.obs.callRead = TRUE]
    IN  IF EndsWith(new_data, CRLF) THEN LoopExit(s1, s1.data) ELSE s1

\* getMessages, lines 78-85: recv timed out.
RecvTimeout(s) ==
    LET s1 == [s EXCEPT !.obs.callRead = TRUE,
                        !.obs.midTimeout = @ \/ (s.data /= <<>> /\ ~EndsWith(s.data, CRLF))]
    IN  IF s.rdMode = "avail" /\ s.data = <<>> THEN Deliver(s1, <<>>)
        ELSE LoopExit(s1, s.data)

\* getMessages, lines 87-89: recv returned no bytes.  ConnectionClosed is
\* defined nowhere, so the raise statement raises NameError.
RecvZero(s) ==
    Raise(Observe([s EXCEPT !.obs.callRead = TRUE],
                  [zero |-> TRUE, buffered |-> s.data /= <<>>,
                   err |-> "NameError:ConnectionClosed", returned |-> 0]),
          "NameError:ConnectionClosed")

\* getMessage, lines 105-106: the inbox is empty, getMessages is called.
Fill(s) == [s EXCEPT !.rdMode = "one", !.data = <<>>]

\* ---------------------------------------------------------------- Client

\* A reply line of the request at the head of obs.owed was taken.
TakeOwed(owed) ==
    IF owed = <<>> THEN owed
    ELSE IF Head(owed) <= 1 THEN Tail(owed)
    ELSE <<Head(owed) - 1>> \o Tail(owed)

\* Client.set, lines 181-195.
SetStart(s, key, v) ==
    LET s1 == [Begin(s) EXCEPT !.cur = [NoCur EXCEPT !.op = "set", !.key = key,
                                                     !.val = v],
                                !.obs.opsLeft = @ - 1]
    IN  IF ~isvalidkey(key) THEN Raise(s1, "MemcachedKeyCharacterError")
        ELSE IF ~CanSend(s1) THEN Raise(s1, SendError(s1))
        ELSE [Transmit(s1, SetLine(key, v), "") EXCEPT !.pc = "set761"]

\* A variant of lines 196-199 that returns at the 761 and leaves the 762.
Set761_NoEnd(s, m) ==
    IF m.command /= <<"761">> THEN Raise(s, "AssertionError")
    ELSE Return(s, PyNone)

\* Client.set, lines 196-197.
Set761(s, m) ==
    IF m.command /= <<"761">> THEN Raise(s, "AssertionError")
    ELSE [s EXCEPT !.pc = "set762"]

\* Client.set, lines 198-199.
Set762(s, m) ==
    IF m.command /= <<"762">> THEN Raise(s, "AssertionError")
    ELSE Return(s, PyNone)

\* Client.get, lines 201-207.  The name MemcachedKeyCharacterError is not in
\* scope in a method (it is an attribute of the class), so line 203 raises
\* NameError.
GetStart(s, key) ==
    LET s1 == [Begin(s) EXCEPT !.cur = [NoCur EXCEPT !.op = "get", !.key = key],
                                !.obs.opsLeft = @ - 1]
    IN  IF ~isvalidkey(key) THEN Raise(s1, "NameError:MemcachedKeyCharacterError")
        ELSE IF ~CanSend(s1) THEN Raise(s1, SendError(s1))
        ELSE [Transmit(s1, GetLine(key), "") EXCEPT !.pc = "get"]

\* Client.get, line 218: the decoded value is returned, or the decoding raised.
GetDecoded(s, d) == IF d.err /= "" THEN Raise(s, d.err) ELSE Return(s, d.val)

\* A variant of lines 208-218 without the 766 case of line 209.
GetReply_No766(s, m) ==
    IF m.command /= <<"761">> THEN Raise(s, "AssertionError")
    ELSE IF Len(m.params) < 2 THEN Raise(s, "IndexError")
    ELSE IF m.params[2] /= s.cur.key THEN Raise(s, "AssertionError")
    ELSE IF Len(m.params) < 4 THEN Raise(s, "IndexError")
    ELSE GetDecoded(s, DecodePayload(m.params[4]))

\* A variant of lines 208-218 without the comparison of line 212.
GetReply_AnyKey(s, m) ==
    IF m.command = <<"766">> THEN Return(s, PyNone)
    ELSE IF m.command /= <<"761">> THEN Raise(s, "AssertionError")
    ELSE IF Len(m.params) < 4 THEN Raise(s, "IndexError")
    ELSE GetDecoded(s, DecodePayload(m.params[4]))

\* Client.get, lines 208-218.
GetReply(s, m) ==
    IF m.command = <<"766">> THEN Return(s, PyNone)
    ELSE IF m.command /= <<"761">> THEN Raise(s, "AssertionError")
    ELSE IF Len(m.params) < 2 THEN Raise(s, "IndexError")
    ELSE IF m.params[2] /= s.cur.key THEN Raise(s, "AssertionError")
    ELSE IF Len(m.params) < 4 THEN Raise(s, "IndexError")
    ELSE GetDecoded(s, DecodePayload(m.params[4]))

\* Client.delete_multi, lines 223-227: one request line per key, all sent
\* before any reply is read.
RECURSIVE SendDeletes(_, _)
SendDeletes(s, keys) ==
    IF keys = <<>> THEN s
    ELSE SendDeletes(Transmit(s, DeleteLine(Head(keys)), ""), Tail(keys))

\* Client.delete (line 221) and Client.delete_multi, lines 222-228.
DeleteStart(s, op, keys) ==
    LET s1 == [Begin(s) EXCEPT
                 !.cur = [NoCur EXCEPT !.op = op, !.keys = keys, !.i = 1,
                                       !.key = IF keys = <<>> THEN <<>> ELSE keys[1]],
                 !.obs.opsLeft = @ - 1]
    IN  IF keys = <<>> THEN Return(s1, PyNone)
        ELSE IF ~CanSend(s1) THEN Raise(s1, SendError(s1))
        ELSE [SendDeletes(s1, keys) EXCEPT !.pc = "del761"]

\* Client.delete_multi, lines 229-230.
Del761(s, m) ==
    IF m.command /= <<"761">> THEN Raise(s, "AssertionError")
    ELSE [s EXCEPT !.pc = "del762"]

\* Client.delete_multi, lines 231-232 and the loop of line 228.
Del762(s, m) ==
    IF m.command /= <<"762">> THEN Raise(s, "AssertionError")
    ELSE IF s.cur.i >= Len(s.cur.keys) THEN Return(s, PyNone)
    ELSE [s EXCEPT !.pc = "del761", !.cur.i = @ + 1]

\* ------------------------------------------------------- IrcClient's calls

\* IrcClient.disconnect, lines 64-70.  `if not self.conn` raises
\* AttributeError when connect was never called.
Disconnect(s) ==
    LET s1 == [Begin(s) EXCEPT
                 !.obs.last = [NoLast EXCEPT !.call = "disconnect",
                                             !.before = s.conn, !.after = s.conn]]
    IN  IF s.conn = "unset"
        THEN [Raise(s1, "AttributeError") EXCEPT !.obs.last.err = "AttributeError"]
        ELSE IF s.conn = "None" THEN Return(s1, PyNone)
        ELSE [Return(s1, PyNone) EXCEPT !.conn = "None", !.obs.last.closed = TRUE,
                                        !.obs.last.after = "None"]

\* IrcClient.sendLine, lines 112-121, called on its own.
SendLineCall(s, line) ==
    LET s1 == [Begin(s) EXCEPT
                 !.obs.rawLeft = @ - 1,
                 !.obs.last = [NoLast EXCEPT !.call = "sendLine",
                                             !.before = s.conn, !.after = s.conn]]
    IN  IF ~CanSend(s1)
        THEN [Raise(s1, SendError(s1)) EXCEPT !.obs.last.err = SendError(s1)]
        ELSE [Return(Transmit(s1, line, ""), PyNone) EXCEPT !.obs.last.sent = 1]

\* IrcClient.getMessage, lines 103-111, called on its own with no filter.
GetMessageStart(s) == [Begin(s) EXCEPT !.pc = "getMessage", !.obs.readsLeft = @ - 1]

GetMessageReturn(s, m) ==
    [Return(s, PyNone) EXCEPT !.obs.delivered = Append(@, m)]

\* IrcClient.getMessages(), lines 71-74, called on its own.
GetMessagesStart(s) ==
    [Begin(s) EXCEPT !.pc = "getMessages", !.rdMode = "avail", !.data = <<>>,
                     !.obs.readsLeft = @ - 1]

\* getMessage, line 109: inbuffer.pop(0).
Pop(s) ==
    [s EXCEPT !.inbuffer = Tail(@), !.obs.callRead = TRUE,
              !.obs.callFirst = IF @ = NoMessage THEN Head(s.inbuffer) ELSE @,
              !.obs.hsRead = IF s.pc \in HandshakePcs
                             THEN Append(@, Head(s.inbuffer)) ELSE @,
              !.obs.old = IF @.left > 0
                          THEN [left |-> @.left - 1, taken |-> @.taken + 1] ELSE @,
              !.obs.owed = IF s.pc \in StorePcs THEN TakeOwed(@) ELSE @]

\* What the store operation standing at pc does with the message it gets.
StoreStep(s, m) ==
    CASE s.pc = "set761" -> Set761(s, m)
      [] s.pc = "set762" -> Set762(s, m)
      [] s.pc = "get" -> GetReply(s, m)
      [] s.pc = "del761" -> Del761(s, m)
      [] OTHER -> Del762(s, m)

\* ---------------------------------------------------------------- inputs

\* The keys of the model: two valid ones (one with a colon inside) and one
\* with a space.
ValidKeys == {<<"foo">>, <<"a", ":", "b">>}
Keys == ValidKeys \cup {<<"a", SP, "b">>}

\* The values of the round-trip property: true, false, 0, 42, "bar".
Values == {PyBool(TRUE), PyBool(FALSE), PyInt(0), PyInt(42), PyStr(<<"bar">>)}

\* The key lists of delete_multi: none, or the first n of the keys.
KeyOrder == <<<<"foo">>, <<"a", ":", "b">>, <<"a", SP, "b">>, <<"k">>>>
KeyLists == {<<>>} \cup {Slice(KeyOrder, 1, n) : n \in 2..MaxKeys}

\* The lines a peer writes in the reading model, in this order and then over
\* again.
PeerLines == <<<<"A">>, <<":", "p", SP, "B">>, <<"C", SP, ":", "t", SP, "u">>>>
PeerLine(i) == PeerLines[((i - 1) % Len(PeerLines)) + 1]

\* The lines parse_message is tried on: every text of up to MaxLineLen atoms
\* out of a word, a space and a colon.
LineAtoms == {"a", SP, ":"}
LineInputs == UNION {[1..n -> LineAtoms] : n \in 0..MaxLineLen}

\* The first n bytes in flight end a line.
LineCuts(st) == {n \in 2..Len(st) : st[n - 1] = CR /\ st[n] = LF}

\* ----------------------------------------------------------------- actions

\* Client._connect, line 171: IrcClient.connect succeeds or fails.
connect ==
    /\ pc = "idle"
    /\ obs.connectsLeft > 0
    /\ \E ok \in BOOLEAN : Become(Connect(State, ok))

\* Client._connect, line 172: authenticate begins.
authenticate ==
    /\ pc = "authenticate"
    /\ \E ch \in DOMAIN CapReplies : Become(AuthenticateStart(State, ch))

\* A message is in the inbox for the call that waits for one.
HasMessage == rdMode = "none" /\ inbuffer /= <<>>

capStep ==
    /\ pc = "cap" /\ HasMessage
    /\ \E ch \in DOMAIN WelcomeReplies :
          Become(CapStep(Pop(State), Head(inbuffer), ch))

isupportStep ==
    pc = "isupport" /\ HasMessage /\ Become(ISupportStep(Pop(State), Head(inbuffer), ""))

pongStep ==
    /\ pc = "pong" /\ HasMessage
    /\ \E ch \in DOMAIN JoinReplies :
          Become(PongStep(Pop(State), Head(inbuffer), ch))

joinStep == pc = "join" /\ HasMessage /\ Become(JoinStep(Pop(State), Head(inbuffer), ""))

storeStep ==
    pc \in StorePcs /\ HasMessage /\ Become(StoreStep(Pop(State), Head(inbuffer)))

getMessageStep ==
    pc = "getMessage" /\ HasMessage /\ Become(GetMessageReturn(Pop(State), Head(inbuffer)))

\* getMessage finds the inbox empty and calls getMessages(assert_get_one=True).
fill ==
    /\ pc \in WaitingPcs /\ rdMode = "none" /\ inbuffer = <<>>
    /\ Become(Fill(State))

\* recv returns some whole lines.
recvLines ==
    /\ rdMode /= "none"
    /\ \E n \in LineCuts(stream) : Become(RecvData(State, n))

\* recv returns any non-empty part of what is in flight.
recvAny ==
    /\ rdMode /= "none"
    /\ \E n \in 1..Len(stream) : Become(RecvData(State, n))

\* recv times out (what is in flight has not arrived).
recvTimeout == rdMode /= "none" /\ Become(RecvTimeout(State))

\* recv returns no bytes: the peer closed and everything it wrote was read.
recvZero ==
    /\ rdMode /= "none" /\ peerClosed /\ stream = <<>>
    /\ Become(RecvZero(State))

disconnect == pc = "idle" /\ Become(Disconnect(State))

sendLine == pc = "idle" /\ obs.rawLeft > 0 /\ Become(SendLineCall(State, NickLine))

CanCallStore == pc = "idle" /\ obs.built /\ obs.opsLeft > 0

\* (with a key that set refuses the value plays no part: one is enough)
set ==
    /\ CanCallStore
    /\ \E key \in Keys, v \in Values :
          /\ isvalidkey(key) \/ v = PyStr(<<"bar">>)
          /\ Become(SetStart(State, key, v))

\* set with the one value "bar".
setBar ==
    CanCallStore /\ \E key \in Keys : Become(SetStart(State, key, PyStr(<<"bar">>)))

get == CanCallStore /\ \E key \in Keys : Become(GetStart(State, key))

delete ==
    CanCallStore /\ \E key \in Keys : Become(DeleteStart(State, "delete", <<key>>))

delete_multi ==
    /\ CanCallStore
    /\ \E keys \in KeyLists : Become(DeleteStart(State, "delete_multi", keys))

CanCallRead == pc = "idle" /\ conn = "connected" /\ obs.readsLeft > 0

getMessage == CanCallRead /\ Become(GetMessageStart(State))

getMessages == CanCallRead /\ Become(GetMessagesStart(State))

\* The peer writes one more line.
peerWrite ==
    /\ ~peerClosed /\ Len(obs.written) < MaxPeerLines
    /\ LET l == PeerLine(Len(obs.written) + 1)
       IN  /\ stream' = stream \o l \o CRLF
           /\ obs' = [obs EXCEPT !.written = Append(@, l)]
    /\ UNCHANGED <<conn, inbuffer, capabilities, pc, session, cur, rdMode, data,
                   peerClosed, store>>

\* The peer closes its end.
peerClose ==
    /\ ~peerClosed
    /\ peerClosed' = TRUE
    /\ UNCHANGED <<conn, inbuffer, capabilities, pc, session, cur, rdMode, data,
                   stream, store, obs>>

\* --------------------------------------------------------- specifications

\* IrcClient.__init__, lines 54-57: conn is not assigned.
S0 ==
    [conn |-> "unset", inbuffer |-> <<>>, capabilities |-> <<>>, pc |-> "idle",
     session |-> "None", cur |-> NoCur, rdMode |-> "none", data |-> <<>>,
     stream |-> <<>>, peerClosed |-> FALSE, store |-> <<>>,
     obs |-> Obs0(MaxConnects, 0)]

\* The variables have the values of the state record s.
Start(s) ==
    /\ conn = s.conn
    /\ inbuffer = s.inbuffer
    /\ capabilities = s.capabilities
    /\ pc = s.pc
    /\ session = s.session
    /\ cur = s.cur
    /\ rdMode = s.rdMode
    /\ data = s.data
    /\ stream = s.stream
    /\ peerClosed = s.peerClosed
    /\ store = s.store
    /\ obs = s.obs

\* The client from its construction on: connecting, the handshake,
\* disconnecting and connecting again.
Init == Start(S0)

Next ==
    \/ connect \/ authenticate \/ capStep \/ isupportStep \/ pongStep \/ joinStep
    \/ fill \/ recvLines \/ recvTimeout \/ disconnect \/ sendLine

Spec == Init /\ [][Next]_vars

\* A handshake run by the handlers themselves, the server answering with one
\* CAP line, a 005 that lists METADATA and the usual JOIN burst.
AllInFlight(s) == RecvData(Fill(s), Len(s.stream))
\* getMessage returns the next message of the inbox to authenticate or join.
HandshakeStep(s, ch) ==
    CASE s.pc = "cap" -> CapStep(Pop(s), Head(s.inbuffer), ch)
      [] s.pc = "isupport" -> ISupportStep(Pop(s), Head(s.inbuffer), ch)
      [] s.pc = "pong" -> PongStep(Pop(s), Head(s.inbuffer), ch)
      [] OTHER -> JoinStep(Pop(s), Head(s.inbuffer), ch)
\* CAP LS, 001 and 005, PONG: JOIN is sent.
Joining ==
    HandshakeStep(
        AllInFlight(HandshakeStep(HandshakeStep(
            AllInFlight(HandshakeStep(
                AllInFlight(AuthenticateStart(Connect(S0, TRUE), "single")),
                "meta")), ""), "")),
        "echo")
\* The JOIN echo arrives alone and the rest of the burst is drained.
ReadyClean ==
    RecvData(HandshakeStep(RecvData(Fill(Joining), Len(RplJoinEcho)), ""),
             Len(Rpl353 \o Rpl366))
\* The whole burst arrives at once; nothing is left to drain.
ReadyStale == RecvTimeout(HandshakeStep(AllInFlight(Joining), ""))

\* The store operations on a connection the handshake has made Ready.
ForStore(s) ==
    [s EXCEPT !.obs.opsLeft = MaxOps, !.obs.connectsLeft = 0, !.obs.rawLeft = 0]

InitStore == \E s \in {ReadyClean, ReadyStale} : Start(ForStore(s))

NextStore ==
    \/ set \/ get \/ delete \/ delete_multi \/ storeStep
    \/ fill \/ recvLines

SpecStore == InitStore /\ [][NextStore]_vars

\* The store operations with one value for set, on a connection whose inbox
\* is empty: what is sent, owed and stored per key, whatever the value.
InitKeys == Start(ForStore(ReadyClean))

NextKeys ==
    \/ setBar \/ get \/ delete \/ delete_multi \/ storeStep
    \/ fill \/ recvLines

SpecKeys == InitKeys /\ [][NextKeys]_vars

\* The same operations on a connection whose inbox still holds the end of the
\* JOIN burst: replies are read that answer no request of the reader.
InitStale == Start(ForStore(ReadyStale))

NextStale ==
    \/ setBar \/ get \/ delete \/ storeStep
    \/ fill \/ recvLines

SpecStale == InitStale /\ [][NextStale]_vars

\* The reading calls of a connected IrcClient against a peer that writes
\* lines, cut into packets in any way, and may close.
InitRead ==
    Start([Connect(S0, TRUE) EXCEPT !.pc = "idle", !.obs.connectsLeft = 0,
                                    !.obs.opsLeft = 0, !.obs.rawLeft = 0])

NextRead ==
    \/ peerWrite \/ peerClose \/ getMessage \/ getMessages \/ getMessageStep
    \/ fill \/ recvAny \/ recvTimeout \/ recvZero \/ disconnect

SpecRead == InitRead /\ [][NextRead]_vars

\* parse_message on its own: the peer has written one line, any of
\* LineInputs, and getMessages() is called once and receives it whole.
InitParse ==
    \E l \in LineInputs :
        Start([Connect(S0, TRUE) EXCEPT
                 !.pc = "idle", !.stream = l \o CRLF, !.obs.written = <<l>>,
                 !.obs.connectsLeft = 0, !.obs.opsLeft = 0, !.obs.rawLeft = 0,
                 !.obs.readsLeft = 1])

NextParse == getMessages \/ recvLines

SpecParse == InitParse /\ [][NextParse]_vars

\* ------------------------------------------------------------------ claims

\* C1 (as claimed): on a connection where every store operation so far has
\* succeeded, a set(key, value) that succeeds followed by a get(key) that
\* returns gives back the value that was set, with its type.
C1_RoundTrip ==
    \A i \in 1..(Len(obs.hist) - 1) :
        LET a == obs.hist[i]
            b == obs.hist[i + 1]
        IN  (/\ a.op = "set" /\ a.err = "" /\ a.okBefore /\ a.val \in Values
             /\ b.op = "get" /\ b.key = a.key /\ b.err = "")
            => b.res = a.val

\* The 005 message names METADATA among its parameters, at any position.
Lists005(m) ==
    \E i \in 1..Len(m.params) : Split(m.params[i], <<"=">>)[1] = <<"METADATA">>

SentByHandshake(line) ==
    \E i \in 1..Len(obs.hsSent) : obs.hsSent[i] = WireBytes(line)

\* C2: once authenticate has examined a 005 message that does not name
\* METADATA, the handshake has failed with UnsupportedServer and has sent
\* neither PING nor JOIN; the handshake is past AwaitingISupport, or has sent
\* PING or JOIN, only after a 005 message that names METADATA.
C2_MetadataRequired ==
    /\ (obs.seen005 /= NoMessage /\ ~Lists005(obs.seen005))
          => /\ session = "Failed"
             /\ obs.reason = "UnsupportedServer"
             /\ ~SentByHandshake(PingLine)
             /\ ~SentByHandshake(JoinLine)
    /\ session \in {"AwaitingPong", "JoiningChannel", "Ready"}
          => Lists005(obs.seen005)
    /\ (SentByHandshake(PingLine) \/ SentByHandshake(JoinLine))
          => Lists005(obs.seen005)

\* C2's case: a 005 without METADATA was examined and the handshake failed.
C2_Witness ==
    /\ obs.seen005 /= NoMessage /\ ~Lists005(obs.seen005)
    /\ session = "Failed" /\ obs.reason = "UnsupportedServer"

\* The server of C3: one CAP LS line with metadata-2, a 005 with METADATA=1,
\* PONG, and 366 as its whole answer to JOIN.
Scenario3 == obs.script = [cap |-> "single", welcome |-> "meta", join |-> "only366"]
\* The same with the JOIN echo and the names before the 366.
Scenario3Echo == obs.script = [cap |-> "single", welcome |-> "meta", join |-> "echo"]

HandshakeOver ==
    /\ pc = "idle" /\ session \in {"Ready", "Failed"}
    /\ obs.reason /= "NameError:NoMessageException"

EnteredOnce == \A x \in SessionStates : obs.entered[x] <= 1

\* C3 (as claimed): in the scenario, when the handshake is over (and no
\* receive timed out on it) it is Ready, entered once, no state entered twice.
C3_ReadyOnce ==
    (Scenario3 /\ HandshakeOver)
        => (session = "Ready" /\ obs.entered["Ready"] = 1 /\ EnteredOnce)

\* C3 (amended): in the scenario the handshake never reaches Ready: the 366
\* is the first message join reads that is not a NOTICE, its assertion fails
\* and the handshake ends Failed.  With the JOIN echo before the 366 the
\* handshake, once over, is Ready, entered exactly once.  No state is entered
\* twice in either.
C3_Amended ==
    /\ Scenario3
          => /\ EnteredOnce
             /\ session /= "Ready" /\ obs.entered["Ready"] = 0
             /\ obs.joinFirst /= <<>>
                   => /\ obs.joinFirst = <<"366">>
                      /\ session = "Failed" /\ obs.reason = "AssertionError"
    /\ Scenario3Echo
          => /\ EnteredOnce
             /\ HandshakeOver => (session = "Ready" /\ obs.entered["Ready"] = 1)

\* C3's case: the scenario ran until join read the 366.
C3_Witness == Scenario3 /\ obs.joinFirst = <<"366">> /\ session = "Failed"

\* The messages of the lines the peer wrote.
RECURSIVE ParseAll(_)
ParseAll(lines) ==
    IF lines = <<>> THEN <<>>
    ELSE <<parse_message(Head(lines) \o CRLF).msg>> \o ParseAll(Tail(lines))

IsPrefix(a, b) == Len(a) <= Len(b) /\ a = Slice(b, 1, Len(a))

\* C4 (as claimed): as long as no receive timed out inside a line, the
\* messages the read calls have returned are the first of the lines the peer
\* wrote, in the order written, each once.
C4_InOrder ==
    ~obs.midTimeout => IsPrefix(obs.delivered, ParseAll(obs.written))

\* C5 (as claimed): set and get with a key that has a character outside
\* [A-Za-z0-9_.:] raise the library's key-character error, having sent no
\* line and read no message.
C5_InvalidKey ==
    \A i \in 1..Len(obs.hist) :
        LET e == obs.hist[i]
        IN  (e.op \in {"set", "get"} /\ ~isvalidkey(e.key))
            => (e.err = "MemcachedKeyCharacterError" /\ e.lines = <<>> /\ ~e.read)

C7_DeleteThenGet ==
    \A i \in 1..(Len(obs.hist) - 2) :
        LET a == obs.hist[i]
            b == obs.hist[i + 1]
            c == obs.hist[i + 2]
        IN  (/\ a.op = "set" /\ a.err = "" /\ a.okBefore
             /\ b.op = "delete" /\ b.keys = <<a.key>> /\ b.err = ""
             /\ c.op = "get" /\ c.key = a.key)
            => (c.err = "" /\ c.res = PyNone)

\* C7's case: such a set, delete and get have run.
C7_Witness ==
    /\ Len(obs.hist) = 3
    /\ obs.hist[1].op = "set" /\ obs.hist[1].err = "" /\ obs.hist[1].okBefore
    /\ obs.hist[2].op = "delete" /\ obs.hist[2].keys = <<obs.hist[1].key>>
    /\ obs.hist[2].err = ""
    /\ obs.hist[3].op = "get" /\ obs.hist[3].key = obs.hist[1].key
    /\ obs.hist[3].res = PyNone /\ obs.hist[3].err = ""

\* C8 (as claimed): sendLine called with no live socket (connect never
\* called, connect failed, or after disconnect) raises Disconnected and sends
\* nothing.
C8_SendLineDisconnected ==
    (obs.last.call = "sendLine" /\ obs.last.before /= "connected")
        => (obs.last.err = "Disconnected" /\ obs.last.sent = 0)

\* C9 (as claimed): disconnect returns without an exception whatever the state
\* of the connection, closes the socket exactly when there is one, and leaves
\* the connection Disconnected.
C9_DisconnectIdempotent ==
    obs.last.call = "disconnect"
        => /\ obs.last.err = ""
           /\ obs.last.after = "None"
           /\ obs.last.closed <=> obs.last.before \in {"connected", "unconnected"}

\* C10 (as claimed): a read that gets zero bytes raises ConnectionClosed and
\* returns no message, whatever it had buffered; the connection is
\* Disconnected exactly when disconnect has been called since.
C10_ConnectionClosed ==
    obs.read.zero
        => /\ obs.read.err = "ConnectionClosed"
           /\ obs.read.returned = 0
           /\ conn = "None" <=> obs.last.call = "disconnect"

\* The message is a 761 that echoes the key.
Echoes761(m, key) ==
    m.command = <<"761">> /\ Len(m.params) >= 2 /\ m.params[2] = key

\* C11: a get that took a message decided by the first one it took: a 766
\* gives None and no exception; a value is returned only for a 761 that
\* echoes the requested key; a first message that is neither a 766 nor a 761,
\* or a 761 with another key, gives AssertionError and no value.
C11_GetFirstReply ==
    \A i \in 1..Len(obs.hist) :
        LET e == obs.hist[i]
        IN  (e.op = "get" /\ e.first /= NoMessage) =>
              /\ e.first.command = <<"766">> => (e.err = "" /\ e.res = PyNone)
              /\ (e.err = "" /\ e.res /= PyNone) => Echoes761(e.first, e.key)
              /\ (e.first.command /= <<"766">> /\ ~Echoes761(e.first, e.key))
                    => (e.err = "AssertionError" /\ e.res = PyNone)

\* C11's case: a get whose first message was a 761 with another key (the
\* reply to an earlier request) raised AssertionError.
C11_Witness ==
    \E i \in 1..Len(obs.hist) :
        /\ obs.hist[i].op = "get"
        /\ obs.hist[i].first.command = <<"761">>
        /\ Len(obs.hist[i].first.params) >= 4
        /\ obs.hist[i].first.params[2] /= obs.hist[i].key
        /\ obs.hist[i].err = "AssertionError"

\* The lines of the handshake in the order of the source.
HandshakeLines ==
    <<WireBytes(CapLsLine), WireBytes(UserLine), WireBytes(NickLine),
      WireBytes(CapEndLine), WireBytes(PingLine), WireBytes(JoinLine)>>

\* What the handshake waits for: the last CAP LS reply, a 005 that lists
\* METADATA, a PONG.
LastCapLs(m) ==
    /\ m.command = <<"CAP">> /\ Len(m.params) >= 3
    /\ m.params[2] = <<"LS">> /\ m.params[3] /= <<"*">>
Good005(m) == m.command = <<"005">> /\ HasMetadata(m)
IsPong(m) == m.command = <<"PONG">>

\* The number of lines the handshake has sent when it is in a state.
SentIn ==
    [x \in SessionStates \ {"Failed"} |->
        CASE x = "Init" -> {0}
          [] x = "AwaitingCapabilities" -> {3}
          [] x = "AwaitingISupport" -> {4}
          [] x = "AwaitingPong" -> {5}
          [] OTHER -> {6}]

\* The states before a state, in the order of the handshake.
Before ==
    [x \in SessionStates \ {"Failed"} |->
        CASE x = "Init" -> {}
          [] x = "AwaitingCapabilities" -> {"Init"}
          [] x = "AwaitingISupport" -> {"Init", "AwaitingCapabilities"}
          [] x = "AwaitingPong" -> {"Init", "AwaitingCapabilities", "AwaitingISupport"}
          [] x = "JoiningChannel" ->
                {"Init", "AwaitingCapabilities", "AwaitingISupport", "AwaitingPong"}
          [] OTHER -> {"Init", "AwaitingCapabilities", "AwaitingISupport",
                       "AwaitingPong", "JoiningChannel"}]

\* C12: in a handshake no state is entered twice and a state is entered
\* only after all the states before it; the lines sent are the first of CAP
\* LS, USER, NICK, CAP END, PING, JOIN in this order, as many as the state
\* reached says; CAP END is sent only after a CAP LS reply without `*` was
\* taken, PING only after a 005 that passes the check of line 141, JOIN only
\* after a PONG.
C12_Linear ==
    /\ EnteredOnce
    /\ \A x \in SessionStates \ {"Failed"} :
          /\ obs.entered[x] = 1 => \A y \in Before[x] : obs.entered[y] = 1
          /\ session = x => Len(obs.hsSent) \in SentIn[x]
    /\ IsPrefix(obs.hsSent, HandshakeLines)
    /\ Len(obs.hsSent) >= 4 => \E i \in 1..Len(obs.hsRead) : LastCapLs(obs.hsRead[i])
    /\ Len(obs.hsSent) >= 5 =>
          \E i \in 1..Len(obs.hsRead) :
              /\ Good005(obs.hsRead[i])
              /\ \E j \in 1..(i - 1) : LastCapLs(obs.hsRead[j])
    /\ Len(obs.hsSent) >= 6 =>
          \E i \in 1..Len(obs.hsRead) :
              /\ IsPong(obs.hsRead[i])
              /\ \E j \in 1..(i - 1) : Good005(obs.hsRead[j])

\* C12's case: a handshake whose CAP LS reply came in two lines, the first
\* with the continuation marker, has reached Ready.
C12_Witness ==
    /\ session = "Ready" /\ obs.script.cap = "multi"
    /\ obs.hsSent = HandshakeLines

\* C13 (as claimed): when a 366 is the message join reads as the reply to its
\* JOIN (NOTICEs skipped) the handshake fails and is not Ready; when the
\* handshake is Ready, join read another reply and nothing of the server's
\* JOIN burst is left, neither in the inbox nor unread on the socket.
C13_JoinDrained ==
    /\ obs.joinFirst = <<"366">> => (session = "Failed" /\ obs.entered["Ready"] = 0)
    /\ session = "Ready" =>
          /\ obs.joinFirst \notin {<<>>, <<"366">>, <<"NOTICE">>}
          /\ inbuffer = <<>>
          /\ stream = <<>>

\* C14 (as claimed): while the receive loop of getMessages runs (it is about
\* to call recv again) the bytes it has accumulated do not end with CRLF.
C14_StopsAtCRLF == rdMode /= "none" => ~EndsWith(data, CRLF)

\* The message of a line with ` :` at index i: the text after it is the last
\* parameter, the tokens before it come first.
OneTrailing(l, i) ==
    FromTokens(FilterNonEmpty(Split(Slice(l, 1, i - 1), <<SP>>))
               \o <<Slice(l, i + 2, Len(l))>>)

\* The line has ` :` in it and tokens that give a message.
HasTrailing(l) ==
    Find(l, <<SP, ":">>) > 0 /\ OneTrailing(l, Find(l, <<SP, ":">>)).err = ""

\* The one getMessages() call has ended.
ParseDone == pc = "idle" /\ obs.readsLeft = 0 /\ Len(obs.written) = 1

\* C15 (as claimed): a line with ` :` in it, once or more often, is parsed
\* without an exception into the message whose last parameter is all the text
\* after the first ` :` and whose prefix, command and earlier parameters are
\* the non-empty tokens before it.
C15_OneTrailing ==
    (ParseDone /\ HasTrailing(obs.written[1]))
        => /\ obs.err = ""
           /\ obs.delivered
                 = <<OneTrailing(obs.written[1], Find(obs.written[1], <<SP, ":">>)).msg>>

\* C16 (as claimed): the first message the first store operation on a Ready
\* connection takes, if it takes one, is a reply to a METADATA request: a 761
\* or a 766 (no request was made before its own).
C16_FirstReply ==
    (Len(obs.hist) >= 1 /\ obs.opsLeft + Len(obs.hist) = MaxOps)
        => obs.hist[1].first.command \in {<<>>, <<"761">>, <<"766">>}

\* C17 (as claimed): every message the read calls have returned is the
\* message of one whole line the peer wrote, receive timeouts or not.
C17_NoFragment ==
    \A i \in 1..Len(obs.delivered) :
        \E j \in 1..Len(obs.written) :
            obs.delivered[i] = parse_message(obs.written[j] \o CRLF).msg

\* C18 (as claimed): no message that was in the inbox when connect() was
\* called after disconnect() is taken by the handshake or by a later call.
C18_FreshInbox == obs.old.taken = 0

\* The messages hold a 005 that names METADATA among its parameters.
Advertised(msgs) ==
    \E i \in 1..Len(msgs) : msgs[i].command = <<"005">> /\ Lists005(msgs[i])

\* C19 (as claimed): when the registration burst the server chose has a 005
\* that names METADATA, the handshake does not fail with UnsupportedServer.
C19_AnyISupport ==
    (obs.script.welcome /= ""
        /\ Advertised(ParseData(WelcomeReplies[obs.script.welcome]).msgs))
        => obs.reason /= "UnsupportedServer"

\* The line is a METADATA SET or GET request for the key.
Carries(line, key) == StartsWith(line, DeleteLine(key)) \/ StartsWith(line, GetLine(key))

\* C20 (as claimed): no store operation has sent a METADATA line for a key
\* that isvalidkey refuses.
C20_NoInvalidKeySent ==
    \A i \in 1..Len(obs.hist) :
        \A key \in Keys :
            ~isvalidkey(key) =>
                \A j \in 1..Len(obs.hist[i].lines) : ~Carries(obs.hist[i].lines[j], key)

\* Sanity: the shape of the state.
TypeOK ==
    /\ conn \in {"unset", "unconnected", "connected", "None"}
    /\ pc \in {"idle", "getMessage", "getMessages"} \cup HandshakePcs \cup StorePcs
    /\ session \in SessionStates \cup {"None"}
    /\ rdMode \in {"none", "one", "avail"}
    /\ rdMode = "none" => data = <<>>

====
